---- MODULE Spec2Model ----
(***************************************************************************)
(* warp-sqlite-mcp: the SQLite CRUD tools of src/src/main.rs.              *)
(*                                                                         *)
(* Text is modelled by TLA+ strings (concatenation \o, SubSeq, Len), so    *)
(* that statement text is assembled the way format!/push_str assemble it.  *)
(* Option<T> is a sequence: <<>> is None, <<x>> is Some(x).                *)
(***************************************************************************)
EXTENDS Bags, FiniteSets, Integers, Sequences, TLC

VARIABLES
    calls,      \* bag of the calls in flight: [pc, in, stmt]
    rows,       \* the store: the rows of table t, in rowid order
    inUse,      \* pooled connections checked out
    last,       \* the call that completed last, with its outcome
    ident,      \* one application of is_valid_ident
    marshal     \* one value on the write path and/or the read path

vars == <<calls, rows, inUse, last, ident, marshal>>

None == <<>>
Some(x) == <<x>>
IsSome(o) == o # <<>>
Unwrap(o) == o[1]

Max(a, b) == IF a >= b THEN a ELSE b
Min(a, b) == IF a <= b THEN a ELSE b

(***************************************************************************)
(* Characters and strings                                                  *)
(***************************************************************************)
CharAt(s, i) == SubSeq(s, i, i)

Upper == {"A","B","C","D","E","F","G","H","I","J","K","L","M",
          "N","O","P","Q","R","S","T","U","V","W","X","Y","Z"}
Lower == {"a","b","c","d","e","f","g","h","i","j","k","l","m",
          "n","o","p","q","r","s","t","u","v","w","x","y","z"}
Digit == {"0","1","2","3","4","5","6","7","8","9"}

\* the printable ASCII characters in code order: 32 (space) to 95 (_), and
\* 97 (a) to 126 (~); code 96 cannot be written in a string of this language
AsciiLow == " !\"#$%&'()*+,-./0123456789:;<=>?@ABCDEFGHIJKLMNOPQRSTUVWXYZ[\\]^_"
AsciiHigh == "abcdefghijklmnopqrstuvwxyz{|}~"

AsciiCode(c) ==
    IF \E i \in 1..Len(AsciiLow) : CharAt(AsciiLow, i) = c
    THEN 31 + (CHOOSE i \in 1..Len(AsciiLow) : CharAt(AsciiLow, i) = c)
    ELSE 96 + (CHOOSE i \in 1..Len(AsciiHigh) : CharAt(AsciiHigh, i) = c)

\* the UTF-8 bytes of a string of printable ASCII characters
Utf8(s) == [i \in 1..Len(s) |-> AsciiCode(CharAt(s, i))]

RECURSIVE Join(_, _)
Join(list, sep) ==
    IF Len(list) = 0 THEN ""
    ELSE IF Len(list) = 1 THEN list[1]
    ELSE list[1] \o sep \o Join(Tail(list), sep)

\* first index at which kw occurs in s, 0 when it does not
Find(s, kw) ==
    LET hits == {i \in 1..(Len(s) - Len(kw) + 1) : SubSeq(s, i, i + Len(kw) - 1) = kw}
    IN  IF hits = {} THEN 0 ELSE CHOOSE i \in hits : \A j \in hits : i <= j

StartsWith(s, p) == Len(s) >= Len(p) /\ SubSeq(s, 1, Len(p)) = p
EndsWith(s, p) == Len(s) >= Len(p) /\ SubSeq(s, Len(s) - Len(p) + 1, Len(s)) = p
From(s, i) == SubSeq(s, i, Len(s))

RECURSIVE Split(_, _)
Split(s, sep) ==
    LET i == Find(s, sep)
    IN  IF i = 0 THEN <<s>>
        ELSE <<SubSeq(s, 1, i - 1)>> \o Split(From(s, i + Len(sep)), sep)

DigitStr(d) == CharAt("0123456789", d + 1)

RECURSIVE NatStr(_)
NatStr(n) == IF n < 10 THEN DigitStr(n) ELSE NatStr(n \div 10) \o DigitStr(n % 10)

\* Display of an integer, as format!("{}", n) writes it
IntStr(n) == IF n < 0 THEN "-" \o NatStr(0 - n) ELSE NatStr(n)

(***************************************************************************)
(* Identifier validator                                                    *)
(***************************************************************************)
IdentStart == Upper \cup Lower \cup {"_"}
IdentCont == Upper \cup Lower \cup Digit \cup {"_"}

\* the pattern without its closing $: ^[A-Za-z_][A-Za-z0-9_]*
ident_re_no_end(s) ==
    \E p \in 1..Len(s) :
        /\ p = 1
        /\ CharAt(s, p) \in IdentStart
        /\ \E e \in p..Len(s) :
              \A i \in (p + 1)..e : CharAt(s, i) \in IdentCont

\* Regex::new(r"^[A-Za-z_][A-Za-z0-9_]*$"): a match is a span p..e of s whose
\* first character is in the first class and whose other characters are in
\* the second; ^ holds the span to the start of s and $ to its end (the regex
\* crate's $ is end of text: no multi-line mode is set).
ident_re(s) ==
    \E p \in 1..Len(s) :
        /\ p = 1
        /\ CharAt(s, p) \in IdentStart
        /\ \E e \in p..Len(s) :
              /\ \A i \in (p + 1)..e : CharAt(s, i) \in IdentCont
              /\ e = Len(s)

is_valid_ident(s) == ident_re(s)

(***************************************************************************)
(* Values                                                                  *)
(*                                                                         *)
(* A 64-bit magnitude is written k * 2^63 + m with m small, as [k, m]:     *)
(* i64::MAX is [1, -1], 2^63 is [1, 0], u64::MAX is [2, -1], i64::MIN is   *)
(* [-1, 0]. An f64 is written as twice its value (the modelled floats are  *)
(* multiples of 0.5).                                                      *)
(***************************************************************************)
Big(k, m) == [k |-> k, m |-> m]
Small(n) == Big(0, n)
BigLeq(x, y) == x.k < y.k \/ (x.k = y.k /\ x.m <= y.m)
I64_MAX == Big(1, -1)
I64_MIN == Big(-1, 0)
U64_MAX == Big(2, -1)

\* serde_json::Value. rep is the Number's representation (PosInt(u64),
\* NegInt(i64), Float(f64)); an array holds integers, an object maps its keys
\* (in iteration order) to integers.
JValue(t, b, rep, n, s, keys, items) ==
    [t |-> t, b |-> b, rep |-> rep, n |-> n, s |-> s, keys |-> keys, items |-> items]
JNull == JValue("null", FALSE, "", Small(0), "", <<>>, <<>>)
JBool(b) == JValue("bool", b, "", Small(0), "", <<>>, <<>>)
JPos(n) == JValue("num", FALSE, "PosInt", n, "", <<>>, <<>>)
JNeg(n) == JValue("num", FALSE, "NegInt", n, "", <<>>, <<>>)
JFloatN(n) == JValue("num", FALSE, "Float", n, "", <<>>, <<>>)
JFloat(h) == JFloatN(Small(h))
JStr(s) == JValue("str", FALSE, "", Small(0), s, <<>>, <<>>)
JArr(items) == JValue("arr", FALSE, "", Small(0), "", <<>>, items)
JObj(keys, items) == JValue("obj", FALSE, "", Small(0), "", keys, items)
\* Value::from(i64): a non-negative i64 is a PosInt, a negative one a NegInt
JInt(n) == IF BigLeq(Small(0), n) THEN JPos(n) ELSE JNeg(n)

\* Number::as_i64, as_u64, as_f64
as_i64(v) ==
    IF v.rep = "PosInt" THEN (IF BigLeq(v.n, I64_MAX) THEN Some(v.n) ELSE None)
    ELSE IF v.rep = "NegInt" THEN Some(v.n)
    ELSE None
as_u64(v) == IF v.rep = "PosInt" THEN Some(v.n) ELSE None
as_f64(v) ==
    IF v.rep = "Float" THEN Some(v.n)
    ELSE IF v.n.k = 0 THEN Some(Small(2 * v.n.m))
    ELSE Some(Big(2 * v.n.k, 0))     \* the nearest f64 of a magnitude near k * 2^63

\* the text of a float, as serde_json writes it
FloatStr(h) ==
    (IF h < 0 THEN "-" ELSE "") \o
    LET a == IF h < 0 THEN 0 - h ELSE h
    IN  NatStr(a \div 2) \o (IF a % 2 = 0 THEN ".0" ELSE ".5")

\* Value::to_string of an array or object (compact JSON)
to_string(v) ==
    IF v.t = "arr"
    THEN "[" \o Join([i \in 1..Len(v.items) |-> IntStr(v.items[i])], ",") \o "]"
    ELSE "{" \o Join([i \in 1..Len(v.keys) |->
                        "\"" \o v.keys[i] \o "\":" \o IntStr(v.items[i])], ",") \o "}"

\* A bound parameter (what Query::bind adds to the argument list)
Param(k, b, n, s) == [k |-> k, b |-> b, n |-> n, s |-> s]
PNull == Param("null", FALSE, Small(0), "")
PBool(b) == Param("bool", b, Small(0), "")
PInt(n) == Param("int", FALSE, n, "")
PFloat(n) == Param("float", FALSE, n, "")
PText(s) == Param("text", FALSE, Small(0), s)
PBlob(s) == Param("blob", FALSE, Small(0), s)

\* bind_value with a string bound as its bytes instead of as text
bind_value_blob(v) ==
    IF v.t = "null" THEN PNull
    ELSE IF v.t = "bool" THEN PBool(v.b)
    ELSE IF v.t = "num" THEN
        IF IsSome(as_i64(v)) THEN PInt(Unwrap(as_i64(v)))
        ELSE IF IsSome(as_u64(v)) THEN PInt(I64_MAX)
        ELSE IF IsSome(as_f64(v)) THEN PFloat(Unwrap(as_f64(v)))
        ELSE PNull
    ELSE IF v.t = "str" THEN PBlob(v.s)
    ELSE PText(to_string(v))

\* bind_value with the u64 cast to i64 (u as i64), which wraps
bind_value_wrapping(v) ==
    IF v.t = "null" THEN PNull
    ELSE IF v.t = "bool" THEN PBool(v.b)
    ELSE IF v.t = "num" THEN
        IF IsSome(as_i64(v)) THEN PInt(Unwrap(as_i64(v)))
        ELSE IF IsSome(as_u64(v))
             THEN PInt(Big(Unwrap(as_u64(v)).k - 2, Unwrap(as_u64(v)).m))
        ELSE IF IsSome(as_f64(v)) THEN PFloat(Unwrap(as_f64(v)))
        ELSE PNull
    ELSE IF v.t = "str" THEN PText(v.s)
    ELSE PText(to_string(v))

\* bind_value: the parameter bound for v (it never returns Err)
bind_value(v) ==
    IF v.t = "null" THEN PNull
    ELSE IF v.t = "bool" THEN PBool(v.b)
    ELSE IF v.t = "num" THEN
        IF IsSome(as_i64(v)) THEN PInt(Unwrap(as_i64(v)))
        ELSE IF IsSome(as_u64(v))
             THEN PInt(IF BigLeq(Unwrap(as_u64(v)), I64_MAX) THEN Unwrap(as_u64(v)) ELSE I64_MAX)
        ELSE IF IsSome(as_f64(v)) THEN PFloat(Unwrap(as_f64(v)))
        ELSE PNull
    ELSE IF v.t = "str" THEN PText(v.s)
    ELSE PText(to_string(v))

\* base64::engine::general_purpose::STANDARD: the alphabet, with = padding
B64Chars == "ABCDEFGHIJKLMNOPQRSTUVWXYZabcdefghijklmnopqrstuvwxyz0123456789+/"
B64Char(i) == CharAt(B64Chars, i + 1)

\* the encoding of an engine without padding (STANDARD_NO_PAD)
RECURSIVE B64EncodeNoPad(_)
B64EncodeNoPad(bytes) ==
    IF Len(bytes) = 0 THEN ""
    ELSE IF Len(bytes) = 1 THEN
        B64Char(bytes[1] \div 4) \o B64Char((bytes[1] % 4) * 16)
    ELSE IF Len(bytes) = 2 THEN
        B64Char(bytes[1] \div 4) \o B64Char((bytes[1] % 4) * 16 + bytes[2] \div 16)
            \o B64Char((bytes[2] % 16) * 4)
    ELSE
        B64Char(bytes[1] \div 4) \o B64Char((bytes[1] % 4) * 16 + bytes[2] \div 16)
            \o B64Char((bytes[2] % 16) * 4 + bytes[3] \div 64) \o B64Char(bytes[3] % 64)
            \o B64EncodeNoPad(SubSeq(bytes, 4, Len(bytes)))

RECURSIVE B64Encode(_)
B64Encode(bytes) ==
    IF Len(bytes) = 0 THEN ""
    ELSE IF Len(bytes) = 1 THEN
        B64Char(bytes[1] \div 4) \o B64Char((bytes[1] % 4) * 16) \o "=="
    ELSE IF Len(bytes) = 2 THEN
        B64Char(bytes[1] \div 4) \o B64Char((bytes[1] % 4) * 16 + bytes[2] \div 16)
            \o B64Char((bytes[2] % 16) * 4) \o "="
    ELSE
        B64Char(bytes[1] \div 4) \o B64Char((bytes[1] % 4) * 16 + bytes[2] \div 16)
            \o B64Char((bytes[2] % 16) * 4 + bytes[3] \div 64) \o B64Char(bytes[3] % 64)
            \o B64Encode(SubSeq(bytes, 4, Len(bytes)))

(***************************************************************************)
(* The store's cells and the read path                                     *)
(***************************************************************************)
\* A stored cell: SQLite's storage classes, and "other" for a value whose
\* type no decoder of the read path accepts. A REAL cell with s = "inf" holds
\* an infinity; a TEXT cell with bytes holds those bytes, which are not UTF-8.
Cell(k, n, s, bytes) == [k |-> k, n |-> n, s |-> s, bytes |-> bytes]
CNull == Cell("null", Small(0), "", <<>>)
CInt(n) == Cell("int", n, "", <<>>)
CFloat(n) == Cell("float", n, "", <<>>)
CText(s) == Cell("text", Small(0), s, <<>>)
CBlob(bytes) == Cell("blob", Small(0), "", bytes)
CFloatInf == Cell("float", Small(0), "inf", <<>>)
CTextRaw(bytes) == Cell("text", Small(0), "", bytes)
COther == Cell("other", Small(0), "", <<>>)

\* What the store keeps of a bound parameter, in a column without affinity:
\* sqlx binds a bool as the integer 0 or 1
StoreCell(p) ==
    IF p.k = "null" THEN CNull
    ELSE IF p.k = "bool" THEN CInt(Small(IF p.b THEN 1 ELSE 0))
    ELSE IF p.k = "int" THEN CInt(p.n)
    ELSE IF p.k = "float" THEN CFloat(p.n)
    ELSE IF p.k = "text" THEN CText(p.s)
    ELSE CBlob(Utf8(p.s))

\* Value::from(f64): Null for a float that is not finite
from_f64(c) == IF c.s = "inf" THEN JNull ELSE JFloatN(c.n)

\* Row::try_get::<T>: Some(the JSON value the select makes of it) when the
\* cell decodes as T. A non-null cell must be of a type T is compatible with
\* (i64: INTEGER, f64: REAL, String: TEXT, Vec<u8>: BLOB or TEXT), and a String
\* must be UTF-8; a null cell is not type-checked and decodes to T's zero value.
try_get(T, c) ==
    IF c.k = "null" THEN
        (IF T = "i64" THEN Some(JInt(Small(0)))
         ELSE IF T = "f64" THEN Some(JFloat(0))
         ELSE IF T = "String" THEN Some(JStr(""))
         ELSE Some(JStr(B64Encode(<<>>))))
    ELSE IF T = "i64" THEN (IF c.k = "int" THEN Some(JInt(c.n)) ELSE None)
    ELSE IF T = "f64" THEN (IF c.k = "float" THEN Some(from_f64(c)) ELSE None)
    ELSE IF T = "String"
         THEN (IF c.k = "text" /\ c.bytes = <<>> THEN Some(JStr(c.s)) ELSE None)
    ELSE IF c.k = "blob" THEN Some(JStr(B64Encode(c.bytes)))
    ELSE IF c.k = "text"
         THEN Some(JStr(B64Encode(IF c.bytes = <<>> THEN Utf8(c.s) ELSE c.bytes)))
    ELSE None

\* the order of the typed reads
ProbeOrder == <<"i64", "f64", "String", "Vec<u8>">>

\* the if-let chain from its i-th typed read on: the value, and the typed
\* reads attempted so far
RECURSIVE ProbeFrom(_, _)
ProbeFrom(c, i) ==
    IF i > Len(ProbeOrder) THEN [v |-> JNull, probes |-> ProbeOrder]
    ELSE IF IsSome(try_get(ProbeOrder[i], c))
         THEN [v |-> Unwrap(try_get(ProbeOrder[i], c)), probes |-> SubSeq(ProbeOrder, 1, i)]
    ELSE ProbeFrom(c, i + 1)

\* the read of one cell without the null check
ReadCellNoNullCheck(c) == ProbeFrom(c, 1)

\* the read of one cell: Null for a null cell, else the first typed read
\* that succeeds, else Null
ReadCell(c) ==
    IF c.k = "null" THEN [v |-> JNull, probes |-> <<>>]
    ELSE ProbeFrom(c, 1)

(***************************************************************************)
(* Tool inputs and the statement builder: each handler up to its await     *)
(***************************************************************************)
\* InsertInput, SelectInput, UpdateInput, DeleteInput as one record. values
\* is the insert's values or the update's set: the serde_json::Map as the
\* sequence of its entries [k, v] in iteration order (the keys are distinct).
Input(op, table, values, columns, where, params, order_by, limit, offset) ==
    [op |-> op, table |-> table, values |-> values, columns |-> columns,
     where |-> where, params |-> params, order_by |-> order_by,
     limit |-> limit, offset |-> offset]
InsertInput(table, values) ==
    Input("insert", table, values, None, None, None, None, None, None)
SelectInput(table, columns, where, params, order_by, limit, offset) ==
    Input("select", table, <<>>, columns, where, params, order_by, limit, offset)
UpdateInput(table, set, where, params) ==
    Input("update", table, set, None, where, params, None, None, None)
DeleteInput(table, where, params) ==
    Input("delete", table, <<>>, None, where, params, None, None, None)
Entry(k, v) == [k |-> k, v |-> v]
Keys(map) == [i \in 1..Len(map) |-> map[i].k]
Vals(map) == [i \in 1..Len(map) |-> map[i].v]

\* A statement handed to sqlx: its text and the parameters bound, in order
Stmt(sql, binds) == [sql |-> sql, binds |-> binds]
NoStmt == Stmt("", <<>>)

\* What a handler has when it reaches its await: an Err to return, or the
\* statement to execute
Prep(err, code, msg, stmt) == [err |-> err, code |-> code, msg |-> msg, stmt |-> stmt]
InvalidParams(msg) == Prep(TRUE, "invalid_params", msg, NoStmt)
Ready(sql, binds) == Prep(FALSE, "", "", Stmt(sql, binds))

\* for p in params { q = bind_value(q, p)? }
BindAll(values) == [i \in 1..Len(values) |-> bind_value(values[i])]
BindParams(params) == IF IsSome(params) THEN BindAll(Unwrap(params)) ELSE <<>>

\* the first name of the list that fails the check, as the for loops find it
FirstInvalid(names) ==
    LET bad == {i \in 1..Len(names) : ~is_valid_ident(names[i])}
    IN  IF bad = {} THEN None
        ELSE Some(names[CHOOSE i \in bad : \A j \in bad : i <= j])

Placeholders(n) == Join([i \in 1..n |-> "?"], ", ")

\* sqlite_insert that binds the values in the reverse of the column order
sqlite_insert_reversed(in) ==
    IF ~is_valid_ident(in.table) THEN InvalidParams("Invalid table name")
    ELSE IF IsSome(FirstInvalid(Keys(in.values)))
         THEN InvalidParams("Invalid column: " \o Unwrap(FirstInvalid(Keys(in.values))))
    ELSE IF Len(in.values) = 0 THEN InvalidParams("No columns provided")
    ELSE Ready("INSERT INTO " \o in.table \o " (" \o Join(Keys(in.values), ", ")
                   \o ") VALUES (" \o Placeholders(Len(in.values)) \o ")",
               [i \in 1..Len(in.values) |->
                    bind_value(in.values[Len(in.values) + 1 - i].v)])

\* sqlite_insert without the check of the column names
sqlite_insert_unchecked(in) ==
    IF ~is_valid_ident(in.table) THEN InvalidParams("Invalid table name")
    ELSE IF Len(in.values) = 0 THEN InvalidParams("No columns provided")
    ELSE Ready("INSERT INTO " \o in.table \o " (" \o Join(Keys(in.values), ", ")
                   \o ") VALUES (" \o Placeholders(Len(in.values)) \o ")",
               BindAll(Vals(in.values)))

sqlite_insert(in) ==
    IF ~is_valid_ident(in.table) THEN InvalidParams("Invalid table name")
    ELSE IF IsSome(FirstInvalid(Keys(in.values)))
         THEN InvalidParams("Invalid column: " \o Unwrap(FirstInvalid(Keys(in.values))))
    ELSE IF Len(in.values) = 0 THEN InvalidParams("No columns provided")
    ELSE Ready("INSERT INTO " \o in.table \o " (" \o Join(Keys(in.values), ", ")
                   \o ") VALUES (" \o Placeholders(Len(in.values)) \o ")",
               BindAll(Vals(in.values)))

\* the select's column list: "*" for no list or an empty one
SelectCols(in) ==
    IF IsSome(in.columns) /\ Len(Unwrap(in.columns)) > 0
    THEN Join(Unwrap(in.columns), ", ")
    ELSE "*"

\* sqlite_select that writes OFFSET where LIMIT goes and LIMIT where OFFSET goes
sqlite_select_swapped(in) ==
    IF ~is_valid_ident(in.table) THEN InvalidParams("Invalid table name")
    ELSE IF IsSome(in.columns) /\ IsSome(FirstInvalid(Unwrap(in.columns)))
         THEN InvalidParams("Invalid column: " \o Unwrap(FirstInvalid(Unwrap(in.columns))))
    ELSE Ready("SELECT " \o SelectCols(in) \o " FROM " \o in.table
                   \o (IF IsSome(in.where) THEN " WHERE " \o Unwrap(in.where) ELSE "")
                   \o (IF IsSome(in.order_by) THEN " ORDER BY " \o Unwrap(in.order_by) ELSE "")
                   \o (IF IsSome(in.offset) THEN " LIMIT " \o IntStr(Unwrap(in.offset)) ELSE "")
                   \o (IF IsSome(in.limit) THEN " OFFSET " \o IntStr(Unwrap(in.limit)) ELSE ""),
               BindParams(in.params))

\* sqlite_select with the limit bound as a parameter (LIMIT ?) instead of
\* written as a literal
sqlite_select_bound_limit(in) ==
    IF ~is_valid_ident(in.table) THEN InvalidParams("Invalid table name")
    ELSE IF IsSome(in.columns) /\ IsSome(FirstInvalid(Unwrap(in.columns)))
         THEN InvalidParams("Invalid column: " \o Unwrap(FirstInvalid(Unwrap(in.columns))))
    ELSE Ready("SELECT " \o SelectCols(in) \o " FROM " \o in.table
                   \o (IF IsSome(in.where) THEN " WHERE " \o Unwrap(in.where) ELSE "")
                   \o (IF IsSome(in.order_by) THEN " ORDER BY " \o Unwrap(in.order_by) ELSE "")
                   \o (IF IsSome(in.limit) THEN " LIMIT ?" ELSE "")
                   \o (IF IsSome(in.offset) THEN " OFFSET " \o IntStr(Unwrap(in.offset)) ELSE ""),
               BindParams(in.params)
                   \o (IF IsSome(in.limit) THEN <<PInt(Small(Unwrap(in.limit)))>> ELSE <<>>))

sqlite_select(in) ==
    IF ~is_valid_ident(in.table) THEN InvalidParams("Invalid table name")
    ELSE IF IsSome(in.columns) /\ IsSome(FirstInvalid(Unwrap(in.columns)))
         THEN InvalidParams("Invalid column: " \o Unwrap(FirstInvalid(Unwrap(in.columns))))
    ELSE Ready("SELECT " \o SelectCols(in) \o " FROM " \o in.table
                   \o (IF IsSome(in.where) THEN " WHERE " \o Unwrap(in.where) ELSE "")
                   \o (IF IsSome(in.order_by) THEN " ORDER BY " \o Unwrap(in.order_by) ELSE "")
                   \o (IF IsSome(in.limit) THEN " LIMIT " \o IntStr(Unwrap(in.limit)) ELSE "")
                   \o (IF IsSome(in.offset) THEN " OFFSET " \o IntStr(Unwrap(in.offset)) ELSE ""),
               BindParams(in.params))

SetFrags(set) == Join([i \in 1..Len(set) |-> set[i].k \o " = ?"], ", ")

\* sqlite_update that binds the filter parameters before the set values
sqlite_update_params_first(in) ==
    IF ~is_valid_ident(in.table) THEN InvalidParams("Invalid table name")
    ELSE IF Len(in.values) = 0 THEN InvalidParams("No columns provided in set")
    ELSE IF IsSome(FirstInvalid(Keys(in.values)))
         THEN InvalidParams("Invalid column: " \o Unwrap(FirstInvalid(Keys(in.values))))
    ELSE Ready("UPDATE " \o in.table \o " SET " \o SetFrags(in.values)
                   \o (IF IsSome(in.where) THEN " WHERE " \o Unwrap(in.where) ELSE ""),
               BindParams(in.params) \o BindAll(Vals(in.values)))

\* sqlite_update without the check for an empty set
sqlite_update_no_empty_check(in) ==
    IF ~is_valid_ident(in.table) THEN InvalidParams("Invalid table name")
    ELSE IF IsSome(FirstInvalid(Keys(in.values)))
         THEN InvalidParams("Invalid column: " \o Unwrap(FirstInvalid(Keys(in.values))))
    ELSE Ready("UPDATE " \o in.table \o " SET " \o SetFrags(in.values)
                   \o (IF IsSome(in.where) THEN " WHERE " \o Unwrap(in.where) ELSE ""),
               BindAll(Vals(in.values)) \o BindParams(in.params))

sqlite_update(in) ==
    IF ~is_valid_ident(in.table) THEN InvalidParams("Invalid table name")
    ELSE IF Len(in.values) = 0 THEN InvalidParams("No columns provided in set")
    ELSE IF IsSome(FirstInvalid(Keys(in.values)))
         THEN InvalidParams("Invalid column: " \o Unwrap(FirstInvalid(Keys(in.values))))
    ELSE Ready("UPDATE " \o in.table \o " SET " \o SetFrags(in.values)
                   \o (IF IsSome(in.where) THEN " WHERE " \o Unwrap(in.where) ELSE ""),
               BindAll(Vals(in.values)) \o BindParams(in.params))

\* sqlite_delete that leaves the filter out of the statement
sqlite_delete_no_where(in) ==
    IF ~is_valid_ident(in.table) THEN InvalidParams("Invalid table name")
    ELSE Ready("DELETE FROM " \o in.table, BindParams(in.params))

sqlite_delete(in) ==
    IF ~is_valid_ident(in.table) THEN InvalidParams("Invalid table name")
    ELSE Ready("DELETE FROM " \o in.table
                   \o (IF IsSome(in.where) THEN " WHERE " \o Unwrap(in.where) ELSE ""),
               BindParams(in.params))

\* the tool router: the handler of the tool called
Handle(in) ==
    IF in.op = "insert" THEN sqlite_insert(in)
    ELSE IF in.op = "select" THEN sqlite_select(in)
    ELSE IF in.op = "update" THEN sqlite_update(in)
    ELSE sqlite_delete(in)

(***************************************************************************)
(* The store: one table t(a, b), its columns without type affinity, read   *)
(* and written by the statements of SQLite's grammar that the handlers     *)
(* emit. A statement is parsed from its text; a text that is not of the    *)
(* grammar, or names an unknown table or column, is an execution failure.  *)
(***************************************************************************)
StoreTable == "t"
StoreColumns == <<"a", "b">>
IsColumn(c) == \E i \in 1..Len(StoreColumns) : StoreColumns[i] = c

Row(rowid, a, b) == [rowid |-> rowid, cells |-> [a |-> a, b |-> b]]

\* the filter and order-by expressions among SQLite's that the model evaluates
KnownFilters == {"a = ?", "1 = 0"}
KnownOrders == {"rowid DESC"}

StoreRes(err, newRows, rowid, affected, out) ==
    [err |-> err, rows |-> newRows, rowid |-> rowid, affected |-> affected, out |-> out]
StoreErr(msg, rs) == StoreRes(msg, rs, 0, 0, <<>>)

\* the i-th bound parameter as a cell; an unbound parameter is NULL
Bound(binds, i) == IF i <= Len(binds) THEN StoreCell(binds[i]) ELSE CNull

\* SQL equality of two cells: never true of a NULL; an INTEGER and a REAL
\* compare by value
SqlEq(c, d) ==
    /\ c.k # "null"
    /\ d.k # "null"
    /\ IF c.k = d.k THEN c = d
       ELSE IF c.k = "int" /\ d.k = "float" THEN d.s = "" /\ d.n = Big(2 * c.n.k, 2 * c.n.m)
       ELSE IF c.k = "float" /\ d.k = "int" THEN c.s = "" /\ c.n = Big(2 * d.n.k, 2 * d.n.m)
       ELSE FALSE

\* whether row r satisfies filter f, whose parameters are fbinds
Matches(f, fbinds, r) ==
    IF f = "a = ?" THEN SqlEq(r.cells["a"], Bound(fbinds, 1))
    ELSE FALSE

Selected(where, fbinds, rs) ==
    IF IsSome(where) THEN SelectSeq(rs, LAMBDA r : Matches(Unwrap(where), fbinds, r))
    ELSE rs

Reverse(q) == [i \in 1..Len(q) |-> q[Len(q) + 1 - i]]

\* LIMIT l OFFSET o of SQLite: a negative limit is no limit, a negative
\* offset is 0
Window(q, limit, offset) ==
    LET o == IF IsSome(offset) THEN Max(Unwrap(offset), 0) ELSE 0
        rest == IF o >= Len(q) THEN <<>> ELSE SubSeq(q, o + 1, Len(q))
    IN  IF IsSome(limit) /\ Unwrap(limit) >= 0
        THEN SubSeq(rest, 1, Min(Unwrap(limit), Len(rest)))
        ELSE rest

IsDigits(s) == Len(s) > 0 /\ \A i \in 1..Len(s) : CharAt(s, i) \in Digit
DigitVal(c) == (CHOOSE i \in 1..10 : CharAt("0123456789", i) = c) - 1
RECURSIVE NatVal(_)
NatVal(s) ==
    IF Len(s) = 0 THEN 0
    ELSE 10 * NatVal(SubSeq(s, 1, Len(s) - 1)) + DigitVal(CharAt(s, Len(s)))
\* a signed integer literal
IsIntLit(s) == IF StartsWith(s, "-") THEN IsDigits(From(s, 2)) ELSE IsDigits(s)
IntVal(s) == IF StartsWith(s, "-") THEN 0 - NatVal(From(s, 2)) ELSE NatVal(s)

NextRowid(rs) == IF Len(rs) = 0 THEN 1 ELSE rs[Len(rs)].rowid + 1

\* INSERT INTO <table> (<col>, ...) VALUES (?, ...)
ExecInsert(sql, binds, rs) ==
    LET body == From(sql, Len("INSERT INTO ") + 1)
        i1 == Find(body, " (")
        table == SubSeq(body, 1, i1 - 1)
        rest == From(body, i1 + 2)
        i2 == Find(rest, ") VALUES (")
        cols == Split(SubSeq(rest, 1, i2 - 1), ", ")
        tail == From(rest, i2 + Len(") VALUES ("))
        marks == Split(SubSeq(tail, 1, Len(tail) - 1), ", ")
        Value(c) == IF \E i \in 1..Len(cols) : cols[i] = c
                    THEN Bound(binds, CHOOSE i \in 1..Len(cols) : cols[i] = c)
                    ELSE CNull
    IN  IF i1 = 0 \/ i2 = 0 \/ ~EndsWith(tail, ")") THEN StoreErr("syntax error", rs)
        ELSE IF table # StoreTable THEN StoreErr("no such table: " \o table, rs)
        ELSE IF \E i \in 1..Len(cols) : ~IsColumn(cols[i])
             THEN StoreErr("table t has no such column", rs)
        ELSE IF \E i \in 1..Len(marks) : marks[i] # "?" THEN StoreErr("syntax error", rs)
        ELSE IF Len(marks) # Len(cols) THEN StoreErr("values for columns mismatch", rs)
        ELSE StoreRes("", Append(rs, Row(NextRowid(rs), Value("a"), Value("b"))),
                      NextRowid(rs), 1, <<>>)

\* UPDATE <table> SET <col> = ?, ... [WHERE <filter>]
ExecUpdate(sql, binds, rs) ==
    LET body == From(sql, Len("UPDATE ") + 1)
        i1 == Find(body, " SET ")
        table == SubSeq(body, 1, i1 - 1)
        rest == From(body, i1 + Len(" SET "))
        iw == Find(rest, " WHERE ")
        frags == Split(IF iw = 0 THEN rest ELSE SubSeq(rest, 1, iw - 1), ", ")
        where == IF iw = 0 THEN None ELSE Some(From(rest, iw + Len(" WHERE ")))
        cols == [i \in 1..Len(frags) |-> SubSeq(frags[i], 1, Len(frags[i]) - Len(" = ?"))]
        fbinds == IF Len(binds) > Len(frags) THEN SubSeq(binds, Len(frags) + 1, Len(binds))
                  ELSE <<>>
        hit == Selected(where, fbinds, rs)
        Value(r, c) == IF \E i \in 1..Len(cols) : cols[i] = c
                       THEN Bound(binds, CHOOSE i \in 1..Len(cols) : cols[i] = c)
                       ELSE r.cells[c]
        IsHit(r) == IF IsSome(where) THEN Matches(Unwrap(where), fbinds, r) ELSE TRUE
    IN  IF i1 = 0 \/ \E i \in 1..Len(frags) :
                        ~EndsWith(frags[i], " = ?") \/ Len(frags[i]) = Len(" = ?")
        THEN StoreErr("syntax error", rs)
        ELSE IF table # StoreTable THEN StoreErr("no such table: " \o table, rs)
        ELSE IF \E i \in 1..Len(cols) : ~IsColumn(cols[i])
             THEN StoreErr("no such column", rs)
        ELSE IF IsSome(where) /\ Unwrap(where) \notin KnownFilters
             THEN StoreErr("syntax error", rs)
        ELSE StoreRes("", [i \in 1..Len(rs) |->
                              IF IsHit(rs[i])
                              THEN Row(rs[i].rowid, Value(rs[i], "a"), Value(rs[i], "b"))
                              ELSE rs[i]],
                      0, Len(hit), <<>>)

\* DELETE FROM <table> [WHERE <filter>]
ExecDelete(sql, binds, rs) ==
    LET body == From(sql, Len("DELETE FROM ") + 1)
        iw == Find(body, " WHERE ")
        table == IF iw = 0 THEN body ELSE SubSeq(body, 1, iw - 1)
        where == IF iw = 0 THEN None ELSE Some(From(body, iw + Len(" WHERE ")))
        IsHit(r) == IF IsSome(where) THEN Matches(Unwrap(where), binds, r) ELSE TRUE
    IN  IF table # StoreTable THEN StoreErr("no such table: " \o table, rs)
        ELSE IF IsSome(where) /\ Unwrap(where) \notin KnownFilters
             THEN StoreErr("syntax error", rs)
        ELSE StoreRes("", SelectSeq(rs, LAMBDA r : ~IsHit(r)), 0,
                      Len(SelectSeq(rs, IsHit)), <<>>)

\* SELECT <cols> FROM <table> [WHERE <filter>] [ORDER BY <order>]
\*        [LIMIT <n> [OFFSET <n>]]
ExecSelect(sql, binds, rs) ==
    LET body == From(sql, Len("SELECT ") + 1)
        i1 == Find(body, " FROM ")
        colsText == SubSeq(body, 1, i1 - 1)
        rest == From(body, i1 + Len(" FROM "))
        kw == <<" WHERE ", " ORDER BY ", " LIMIT ", " OFFSET ">>
        pos == [i \in 1..4 |-> Find(rest, kw[i])]
        present == {i \in 1..4 : pos[i] > 0}
        End(i) == LET later == {pos[j] : j \in {j \in present : pos[j] > pos[i]}}
                  IN  IF later = {} THEN Len(rest)
                      ELSE (CHOOSE e \in later : \A f \in later : e <= f) - 1
        Text(i) == SubSeq(rest, pos[i] + Len(kw[i]), End(i))
        Clause(i) == IF i \in present THEN Some(Text(i)) ELSE None
        table == IF present = {} THEN rest
                 ELSE SubSeq(rest, 1, (CHOOSE e \in {pos[j] : j \in present} :
                                          \A j \in present : e <= pos[j]) - 1)
        cols == IF colsText = "*" THEN StoreColumns ELSE Split(colsText, ", ")
        limit == IF 3 \in present THEN Some(IntVal(Text(3))) ELSE None
        offset == IF 4 \in present THEN Some(IntVal(Text(4))) ELSE None
        ordered == IF IsSome(Clause(2)) THEN Reverse(Selected(Clause(1), binds, rs))
                   ELSE Selected(Clause(1), binds, rs)
        picked == Window(ordered, limit, offset)
    IN  IF i1 = 0 THEN StoreErr("syntax error", rs)
        ELSE IF \E i \in present, j \in present : i < j /\ pos[i] > pos[j]
             THEN StoreErr("syntax error", rs)
        ELSE IF 4 \in present /\ 3 \notin present THEN StoreErr("near OFFSET: syntax error", rs)
        ELSE IF \E i \in {3, 4} \cap present : ~IsIntLit(Text(i))
             THEN StoreErr("syntax error", rs)
        ELSE IF table # StoreTable THEN StoreErr("no such table: " \o table, rs)
        ELSE IF \E i \in 1..Len(cols) : ~IsColumn(cols[i])
             THEN StoreErr("no such column", rs)
        ELSE IF 1 \in present /\ Text(1) \notin KnownFilters THEN StoreErr("syntax error", rs)
        ELSE IF 2 \in present /\ Text(2) \notin KnownOrders THEN StoreErr("syntax error", rs)
        ELSE StoreRes("", rs, 0, 0,
                      [i \in 1..Len(picked) |->
                          [names |-> cols,
                           cells |-> [j \in 1..Len(cols) |-> picked[i].cells[cols[j]]]]])

\* Query::execute / Query::fetch_all on a connection: the statement run
\* against the rows rs
Exec(stmt, rs) ==
    IF StartsWith(stmt.sql, "INSERT INTO ") THEN ExecInsert(stmt.sql, stmt.binds, rs)
    ELSE IF StartsWith(stmt.sql, "UPDATE ") THEN ExecUpdate(stmt.sql, stmt.binds, rs)
    ELSE IF StartsWith(stmt.sql, "DELETE FROM ") THEN ExecDelete(stmt.sql, stmt.binds, rs)
    ELSE IF StartsWith(stmt.sql, "SELECT ") THEN ExecSelect(stmt.sql, stmt.binds, rs)
    ELSE StoreErr("syntax error", rs)

(***************************************************************************)
(* Each handler after its await: the tool result                           *)
(***************************************************************************)
\* Result<CallToolResult, ErrorData>: the JSON content of a success
\* (last_insert_rowid, affected_row_count or rows), or the error's code
Res(ok, code, msg, rowid, affected, out) ==
    [ok |-> ok, code |-> code, msg |-> msg, rowid |-> rowid,
     affected |-> affected, out |-> out]
ErrRes(code, msg) == Res(FALSE, code, msg, 0, 0, <<>>)
NoRes == Res(FALSE, "", "", 0, 0, <<>>)

\* serde_json::Map::insert
MapInsert(obj, k, v) == [x \in (DOMAIN obj) \cup {k} |-> IF x = k THEN v ELSE obj[x]]

\* the object made of one fetched row, from its i-th column on
RECURSIVE RowObjFrom(_, _, _)
RowObjFrom(r, i, obj) ==
    IF i > Len(r.names) THEN obj
    ELSE RowObjFrom(r, i + 1, MapInsert(obj, r.names[i], ReadCell(r.cells[i]).v))

\* the rows of a select's result
SelectRows(fetched) == [i \in 1..Len(fetched) |-> RowObjFrom(fetched[i], 1, <<>>)]

\* the handler's return once the store has answered r
Done(in, r) ==
    IF r.err # "" THEN ErrRes("internal_error", r.err)
    ELSE IF in.op = "insert" THEN Res(TRUE, "", "", r.rowid, 0, <<>>)
    ELSE IF in.op = "select" THEN Res(TRUE, "", "", 0, 0, SelectRows(r.out))
    ELSE Res(TRUE, "", "", 0, r.affected, <<>>)

(***************************************************************************)
(* Calls                                                                   *)
(***************************************************************************)
\* SqlitePoolOptions::new().max_connections(5)
max_connections == 5

\* A call in flight: at "acquire" it waits for a pooled connection, at
\* "exec" it holds one and its statement is with the store
Call(pc, in, stmt) == [pc |-> pc, in |-> in, stmt |-> stmt]

NoInput == Input("", "", <<>>, None, None, None, None, None, None)

\* The call completed last: its input, the statement it handed to sqlx
\* (NoStmt when it built none), its result, the rows before it, whether it
\* reached its execute/fetch_all, and whether the store or pool failed it
\* for a reason of their own (busy, I/O, no connection in time)
Completed(in, stmt, res, pre, invoked, fault) ==
    [set |-> TRUE, in |-> in, stmt |-> stmt, res |-> res, pre |-> pre,
     invoked |-> invoked, fault |-> fault]
NoLast ==
    [set |-> FALSE, in |-> NoInput, stmt |-> NoStmt, res |-> NoRes, pre |-> <<>>,
     invoked |-> FALSE, fault |-> FALSE]

One(c) == SetToBag({c})

\* A call arrives: its handler runs to its first await. An Err is returned at
\* once; otherwise the built statement waits for a connection.
Receive(in) ==
    LET p == Handle(in)
    IN  /\ IF p.err
           THEN /\ last' = Completed(in, NoStmt, ErrRes(p.code, p.msg), rows, FALSE, FALSE)
                /\ calls' = calls
           ELSE /\ calls' = calls (+) One(Call("acquire", in, p.stmt))
                /\ last' = last
        /\ UNCHANGED <<rows, inUse, ident, marshal>>

\* the pool hands a waiting call a connection
Acquire ==
    \E c \in BagToSet(calls) :
        /\ c.pc = "acquire"
        /\ inUse < max_connections
        /\ inUse' = inUse + 1
        /\ calls' = (calls (-) One(c)) (+) One(Call("exec", c.in, c.stmt))
        /\ UNCHANGED <<rows, last, ident, marshal>>

\* no connection came free in time: the call fails with the pool's error
AcquireTimeout ==
    \E c \in BagToSet(calls) :
        /\ c.pc = "acquire"
        /\ inUse = max_connections
        /\ calls' = calls (-) One(c)
        /\ last' = Completed(c.in, c.stmt, ErrRes("internal_error", "pool timed out"),
                             rows, TRUE, TRUE)
        /\ UNCHANGED <<rows, inUse, ident, marshal>>

\* execute with the connection dropped only when the statement succeeded
ExecuteLeak(cap) ==
    \E c \in BagToSet(calls) :
        /\ c.pc = "exec"
        /\ StartsWith(c.stmt.sql, "INSERT INTO ") => NextRowid(rows) <= cap
        /\ LET r == Exec(c.stmt, rows)
           IN  /\ rows' = r.rows
               /\ inUse' = IF r.err = "" THEN inUse - 1 ELSE inUse
               /\ last' = Completed(c.in, c.stmt, Done(c.in, r), rows, TRUE, FALSE)
        /\ calls' = calls (-) One(c)
        /\ UNCHANGED <<ident, marshal>>

\* The store runs the statement of a call and the handler returns; the
\* connection goes back to the pool as the execute/fetch_all future ends.
\* cap bounds the rowids the table hands out.
Execute(cap) ==
    \E c \in BagToSet(calls) :
        /\ c.pc = "exec"
        /\ StartsWith(c.stmt.sql, "INSERT INTO ") => NextRowid(rows) <= cap
        /\ LET r == Exec(c.stmt, rows)
           IN  /\ rows' = r.rows
               /\ last' = Completed(c.in, c.stmt, Done(c.in, r), rows, TRUE, FALSE)
        /\ inUse' = inUse - 1
        /\ calls' = calls (-) One(c)
        /\ UNCHANGED <<ident, marshal>>

\* The store fails the statement for a reason of its own (database locked,
\* I/O error): nothing is written, the handler returns the error
ExecuteFail ==
    \E c \in BagToSet(calls) :
        /\ c.pc = "exec"
        /\ inUse' = inUse - 1
        /\ calls' = calls (-) One(c)
        /\ last' = Completed(c.in, c.stmt, ErrRes("internal_error", "database is locked"),
                             rows, TRUE, TRUE)
        /\ UNCHANGED <<rows, ident, marshal>>

\* the caller has the outcome of the call completed last
Respond ==
    /\ last.set
    /\ last' = NoLast
    /\ UNCHANGED <<calls, rows, inUse, ident, marshal>>

(***************************************************************************)
(* Bounds and inputs                                                       *)
(***************************************************************************)
MaxIdentLen == 3    \* longest string over IdentAlphabet given to the validator
MaxCols == 2        \* most entries of an insert's values or an update's set
MaxRows == 2        \* rowids of the table under Spec and SpecPool
TableRows == 5      \* rowids of the table under SpecRows
MaxCalls == 6       \* most calls in flight under SpecPool
MaxBytes == 3       \* longest byte sequence on the marshaller's paths

RECURSIVE SeqsUpTo(_, _)
SeqsUpTo(S, n) ==
    IF n = 0 THEN {<<>>}
    ELSE SeqsUpTo(S, n - 1) \cup
         {Append(q, x) : q \in {r \in SeqsUpTo(S, n - 1) : Len(r) = n - 1}, x \in S}

RECURSIVE StrsUpTo(_, _)
StrsUpTo(S, n) ==
    IF n = 0 THEN {""}
    ELSE StrsUpTo(S, n - 1) \cup
         {q \o x : q \in {r \in StrsUpTo(S, n - 1) : Len(r) = n - 1}, x \in S}

IdentAlphabet == {"a", "Z", "_", "9", ";", " "}
IdentInputs == StrsUpTo(IdentAlphabet, MaxIdentLen) \cup {"1abc", "_abc9", "a\nb", "ab\n"}

\* the value each key carries in the modelled maps
ValueOf(k) == IF k = "a" THEN JPos(Small(1)) ELSE IF k = "b" THEN JStr("x") ELSE JNull
KeyNames == {"a", "b", "1abc"}
Maps ==
    {[i \in 1..Len(ks) |-> Entry(ks[i], ValueOf(ks[i]))] :
        ks \in {q \in SeqsUpTo(KeyNames, MaxCols) :
                   \A i \in 1..Len(q), j \in 1..Len(q) : i # j => q[i] # q[j]}}

Filter(where, params) == [where |-> where, params |-> params]
Filters == {Filter(None, None),
            Filter(Some("a = ?"), Some(<<JPos(Small(1))>>)),
            Filter(Some("1 = 0"), None)}

\* the calls made under Spec
Inputs ==
    {InsertInput(t, m) : t \in {"t", "u", "1abc"}, m \in Maps}
    \cup {UpdateInput(t, m, f.where, f.params) : t \in {"t", "1abc"}, m \in Maps, f \in Filters}
    \cup {DeleteInput(t, f.where, f.params) : t \in {"t", "u", "1abc"}, f \in Filters}
    \cup {SelectInput(t, c, f.where, f.params, None, l, o) :
             t \in {"t", "1abc"},
             c \in {None, Some(<<>>), Some(<<"b", "a">>), Some(<<"a", "1abc">>)},
             f \in Filters, l \in {None, Some(1)}, o \in {None, Some(1)}}

\* the calls made under SpecRows
RowInputs ==
    {InsertInput("t", <<Entry("a", JPos(Small(n)))>>) : n \in {1, 2}}
    \cup {DeleteInput("t", f.where, f.params) :
             f \in Filters \cup {Filter(Some("a = ?"), None), Filter(None, Some(<<JPos(Small(1))>>))}}
    \cup {SelectInput("t", c, None, None, ob, l, o) :
             c \in {None, Some(<<>>), Some(<<"a">>)},
             ob \in {None, Some("rowid DESC")},
             l \in {None, Some(-1), Some(0), Some(2)},
             o \in {None, Some(-1), Some(1)}}

\* the calls made under SpecPool
PoolInputs ==
    {InsertInput("t", <<Entry("a", JPos(Small(1)))>>),
     InsertInput("t", <<Entry("1abc", JNull)>>),
     UpdateInput("t", <<>>, None, None),
     DeleteInput("t", None, None),
     DeleteInput("u", None, None)}

ByteSample == {0, 1, 2, 255}
ByteSeqs == SeqsUpTo(ByteSample, MaxBytes)

\* the values given to the write path
WireValues ==
    {JNull, JBool(TRUE), JBool(FALSE), JPos(Small(0)), JPos(Small(7)), JPos(I64_MAX),
     JPos(Big(1, 0)), JPos(U64_MAX), JNeg(Small(-1)), JNeg(I64_MIN), JFloat(3), JFloat(-1),
     JStr(""), JStr("x"), JObj(<<"k">>, <<1>>)}
    \cup {JArr(b) : b \in ByteSeqs}
    \cup {JStr(B64Encode(b)) : b \in ByteSeqs}

\* the cells a table written by other programs may hold
StoredCells ==
    {CNull, CInt(Small(0)), CInt(Small(-1)), CInt(I64_MAX), CFloat(Small(3)), CFloatInf,
     CText("x"), CText(""), CTextRaw(<<255>>), COther}
    \cup {CBlob(b) : b \in ByteSeqs}

(***************************************************************************)
(* The validator and the marshaller on their own                           *)
(***************************************************************************)
NoIdent == [s |-> "", done |-> FALSE, ok |-> FALSE]

CheckIdent ==
    /\ ~ident.done
    /\ ident' = [s |-> ident.s, done |-> TRUE, ok |-> is_valid_ident(ident.s)]
    /\ UNCHANGED <<calls, rows, inUse, last, marshal>>

Marshal(mode, stage, wire, cell, res, probes) ==
    [mode |-> mode, stage |-> stage, wire |-> wire, cell |-> cell, res |-> res,
     probes |-> probes]
NoMarshal == Marshal("", "", JNull, CNull, NoRes, <<>>)

\* the write path: an insert of {"a": wire} into the empty table, and the
\* cell it leaves in column a
WriteCell(wire) ==
    Exec(sqlite_insert(InsertInput("t", <<Entry("a", wire)>>)).stmt, <<>>).rows[1].cells["a"]

\* the read path: a select of column a from the table whose one row holds
\* cell in a
ReadBack(cell) ==
    Done(SelectInput("t", Some(<<"a">>), None, None, None, None, None),
         Exec(sqlite_select(SelectInput("t", Some(<<"a">>), None, None, None, None, None)).stmt,
              <<Row(1, cell, CNull)>>))

MarshalWrite ==
    /\ marshal.mode = "write"
    /\ marshal.stage = "start"
    /\ marshal' = [marshal EXCEPT !.stage = "stored", !.cell = WriteCell(marshal.wire)]
    /\ UNCHANGED <<calls, rows, inUse, last, ident>>

MarshalRead ==
    /\ \/ marshal.mode = "write" /\ marshal.stage = "stored"
       \/ marshal.mode = "read" /\ marshal.stage = "start"
    /\ marshal' = [marshal EXCEPT !.stage = "read", !.res = ReadBack(marshal.cell),
                                  !.probes = ReadCell(marshal.cell).probes]
    /\ UNCHANGED <<calls, rows, inUse, last, ident>>

(***************************************************************************)
(* Specifications                                                          *)
(***************************************************************************)
Idle == calls = EmptyBag /\ inUse = 0 /\ last = NoLast

\* Spec: one caller that blocks on each call (it makes the next call when it
\* has the outcome of the last), the four tools on any input
Init == Idle /\ rows = <<>> /\ ident = NoIdent /\ marshal = NoMarshal
Next ==
    \/ \E in \in Inputs : Idle /\ Receive(in)
    \/ Acquire
    \/ Execute(MaxRows)
    \/ ExecuteFail
    \/ Respond
Spec == Init /\ [][Next]_vars

\* SpecRows: one caller, inserts, deletes and selects on a table of up to
\* TableRows rows
NextRows ==
    \/ \E in \in RowInputs : Idle /\ Receive(in)
    \/ Acquire
    \/ Execute(TableRows)
    \/ ExecuteFail
    \/ Respond
SpecRows == Init /\ [][NextRows]_vars

\* SpecPool: up to MaxCalls concurrent calls on the pool of max_connections
NextPool ==
    \/ \E in \in PoolInputs : BagCardinality(calls) < MaxCalls /\ Receive(in)
    \/ Acquire
    \/ AcquireTimeout
    \/ Execute(MaxRows)
    \/ ExecuteFail
    \/ Respond
SpecPool == Init /\ [][NextPool]_vars

\* SpecIdent: is_valid_ident applied to one string
InitIdent ==
    /\ Idle /\ rows = <<>> /\ marshal = NoMarshal
    /\ ident \in {[s |-> str, done |-> FALSE, ok |-> FALSE] : str \in IdentInputs}
NextIdent == CheckIdent
SpecIdent == InitIdent /\ [][NextIdent]_vars

\* SpecMarshal: one value written and read back, or one stored cell read
InitMarshal ==
    /\ Idle /\ rows = <<>> /\ ident = NoIdent
    /\ marshal \in {Marshal("write", "start", w, CNull, NoRes, <<>>) : w \in WireValues}
                   \cup {Marshal("read", "start", JNull, c, NoRes, <<>>) : c \in StoredCells}
NextMarshal == MarshalWrite \/ MarshalRead
SpecMarshal == InitMarshal /\ [][NextMarshal]_vars

(***************************************************************************)
(* Properties                                                              *)
(***************************************************************************)
\* s is of the language ^[A-Za-z_][A-Za-z0-9_]*$
MatchesPattern(s) ==
    /\ Len(s) > 0
    /\ CharAt(s, 1) \in Upper \cup Lower \cup {"_"}
    /\ \A i \in 2..Len(s) : CharAt(s, i) \in Upper \cup Lower \cup Digit \cup {"_"}

\* every name of the input that its statement would interpolate
Interpolated(in) ==
    {in.table}
    \cup (IF in.op \in {"insert", "update"} THEN {in.values[i].k : i \in 1..Len(in.values)}
          ELSE {})
    \cup (IF in.op = "select" /\ IsSome(in.columns)
          THEN {Unwrap(in.columns)[i] : i \in 1..Len(Unwrap(in.columns))}
          ELSE {})
NamesOk(in) == \A n \in Interpolated(in) : MatchesPattern(n)

\* the statements that have reached sqlx: those of the calls in flight and
\* that of the call completed last
Emitted ==
    {[in |-> c.in, stmt |-> c.stmt] : c \in BagToSet(calls)}
    \cup (IF last.set /\ last.invoked THEN {[in |-> last.in, stmt |-> last.stmt]} ELSE {})

\* C1: a call with a table or column name that fails the identifier check
\* returns an invalid-params error without a statement built or the store's
\* execute/query invoked, and every statement that reaches the store comes
\* from an input whose interpolated names all pass the check.
C1_InvalidNameNeverReachesStore ==
    /\ \A e \in Emitted : NamesOk(e.in)
    /\ (last.set /\ ~NamesOk(last.in)) =>
          /\ ~last.invoked
          /\ last.stmt = NoStmt
          /\ ~last.res.ok
          /\ last.res.code = "invalid_params"
          /\ StartsWith(last.res.msg, "Invalid ")
          /\ rows = last.pre

C1_Witness ==
    /\ last.set
    /\ last.in.op = "insert"
    /\ last.in.table = "t"
    /\ Keys(last.in.values) = <<"a", "1abc">>
    /\ last.res.code = "invalid_params"
    /\ ~last.invoked

\* C2: is_valid_ident(s) is true exactly when s is non-empty, starts with an
\* ASCII letter or underscore and continues with ASCII letters, digits and
\* underscores; "", "1abc" and strings with a special character are rejected
\* and "_abc9" is accepted.
C2_ValidIffPattern ==
    ident.done =>
        /\ ident.ok <=> MatchesPattern(ident.s)
        /\ ident.s \in {"", "1abc", "a;", ";a", "a a", "a\nb", "ab\n"} => ~ident.ok
        /\ ident.s = "_abc9" => ident.ok

C2_Witness == ident.done /\ ident.s = "_abc9" /\ ident.ok

\* the column names listed by an INSERT statement, and its placeholders
ListedCols(sql) ==
    Split(SubSeq(sql, Find(sql, " (") + 2, Find(sql, ") VALUES (") - 1), ", ")
ListedMarks(sql) ==
    Split(SubSeq(sql, Find(sql, ") VALUES (") + Len(") VALUES ("), Len(sql) - 1), ", ")
\* the value a map gives key k
ValueAt(map, k) == map[CHOOSE i \in 1..Len(map) : map[i].k = k].v

\* C3: an insert with valid names and a non-empty mapping emits a statement
\* that lists the columns in the mapping's iteration order, has one ?
\* per column, and binds as its i-th parameter the value the mapping gives
\* the i-th listed column.
C3_InsertBindsInColumnOrder ==
    \A e \in Emitted :
        e.in.op = "insert" =>
            /\ Len(e.in.values) > 0
            /\ StartsWith(e.stmt.sql, "INSERT INTO " \o e.in.table \o " (")
            /\ ListedCols(e.stmt.sql) = Keys(e.in.values)
            /\ ListedMarks(e.stmt.sql) = [i \in 1..Len(e.in.values) |-> "?"]
            /\ Len(e.stmt.binds) = Len(e.in.values)
            /\ \A i \in 1..Len(e.stmt.binds) :
                  e.stmt.binds[i] = bind_value(ValueAt(e.in.values, ListedCols(e.stmt.sql)[i]))

C3_Witness ==
    /\ last.set /\ last.invoked /\ last.res.ok
    /\ last.in.op = "insert"
    /\ Keys(last.in.values) = <<"b", "a">>
    /\ last.stmt.binds = <<PText("x"), PInt(Small(1))>>

\* C4: an insert with an empty value mapping and an update with an empty set
\* mapping, on a valid table name, fail with an invalid-params error and
\* issue no statement, whatever the filter and parameters are.
C4_EmptyMappingRejected ==
    /\ \A e \in Emitted : e.in.op \in {"insert", "update"} => Len(e.in.values) > 0
    /\ (/\ last.set
        /\ last.in.op \in {"insert", "update"}
        /\ Len(last.in.values) = 0
        /\ MatchesPattern(last.in.table)) =>
          /\ ~last.invoked
          /\ last.stmt = NoStmt
          /\ ~last.res.ok
          /\ last.res.code = "invalid_params"
          /\ StartsWith(last.res.msg, "No columns provided")
          /\ rows = last.pre

C4_Witness ==
    /\ last.set
    /\ last.in.op = "update"
    /\ last.in.table = "t"
    /\ Len(last.in.values) = 0
    /\ IsSome(last.in.where) /\ IsSome(last.in.params)
    /\ last.res.code = "invalid_params"

\* the columns assigned by an UPDATE statement, in the order of its SET clause
SetCols(sql) ==
    LET rest == From(sql, Find(sql, " SET ") + Len(" SET "))
        frags == Split(IF Find(rest, " WHERE ") = 0 THEN rest
                       ELSE SubSeq(rest, 1, Find(rest, " WHERE ") - 1), ", ")
    IN  [i \in 1..Len(frags) |-> SubSeq(frags[i], 1, Find(frags[i], " = ?") - 1)]

\* C5: an accepted update binds the set values in the order of the col = ?
\* fragments of its SET clause and then the filter parameters in the order
\* given; the WHERE text, when there is a filter, follows the SET clause.
C5_UpdateBindsSetThenFilter ==
    \A e \in Emitted :
        e.in.op = "update" =>
            LET n == Len(e.in.values)
                ps == IF IsSome(e.in.params) THEN Unwrap(e.in.params) ELSE <<>>
            IN  /\ SetCols(e.stmt.sql) = Keys(e.in.values)
                /\ Len(e.stmt.binds) = n + Len(ps)
                /\ \A i \in 1..n :
                      e.stmt.binds[i] = bind_value(ValueAt(e.in.values, SetCols(e.stmt.sql)[i]))
                /\ \A j \in 1..Len(ps) : e.stmt.binds[n + j] = bind_value(ps[j])
                /\ IsSome(e.in.where) =>
                      /\ Find(e.stmt.sql, " WHERE ") > Find(e.stmt.sql, " SET ")
                      /\ EndsWith(e.stmt.sql, " WHERE " \o Unwrap(e.in.where))
                /\ ~IsSome(e.in.where) => Find(e.stmt.sql, " WHERE ") = 0

C5_Witness ==
    /\ last.set /\ last.invoked /\ last.res.ok
    /\ last.in.op = "update"
    /\ Keys(last.in.values) = <<"b", "a">>
    /\ last.in.where = Some("a = ?")
    /\ last.stmt.binds = <<PText("x"), PInt(Small(1)), PInt(Small(1))>>
    /\ last.res.affected = 1

\* the rows of pre that the filter of the input selects
Hit(in, pre) == Selected(in.where, BindParams(in.params), pre)

\* C6: a delete with no filter on a table holding N rows reports an affected
\* count of N and leaves the table empty; a delete whose filter matches no
\* row succeeds, reports an affected count of 0 and leaves the table as it
\* was (the store not failing for a reason of its own).
C6_DeleteAllAndDeleteNone ==
    (last.set /\ last.in.op = "delete" /\ last.in.table = StoreTable
        /\ last.invoked /\ ~last.fault) =>
        /\ ~IsSome(last.in.where) =>
              /\ last.res.ok
              /\ last.res.affected = Len(last.pre)
              /\ rows = <<>>
        /\ (IsSome(last.in.where) /\ Hit(last.in, last.pre) = <<>>) =>
              /\ last.res.ok
              /\ last.res.affected = 0
              /\ rows = last.pre

C6_Witness ==
    /\ last.set /\ last.in.op = "delete" /\ last.invoked
    /\ ~IsSome(last.in.where)
    /\ Len(last.pre) = TableRows
    /\ last.res.affected = TableRows
    /\ rows = <<>>

C6_WitnessNone ==
    /\ last.set /\ last.in.op = "delete" /\ last.invoked
    /\ last.in.where = Some("a = ?")
    /\ Len(last.pre) = TableRows
    /\ last.res.ok /\ last.res.affected = 0
    /\ rows = last.pre

\* the rows of q at positions lo .. hi, those that exist
Slice(q, lo, hi) ==
    [i \in 1..Max(0, Min(hi, Len(q)) - Max(lo, 1) + 1) |-> q[Max(lo, 1) + i - 1]]

\* the rows a select ranges over, in its order
Ordered(in, pre) == IF IsSome(in.order_by) THEN Reverse(Hit(in, pre)) ELSE Hit(in, pre)

\* the columns a select returns
Asked(in) ==
    IF IsSome(in.columns) /\ Len(Unwrap(in.columns)) > 0
    THEN {Unwrap(in.columns)[i] : i \in 1..Len(Unwrap(in.columns))}
    ELSE {StoreColumns[i] : i \in 1..Len(StoreColumns)}

\* the result row of a stored row: the JSON value of each asked column
RowObj(in, r) == [c \in Asked(in) |-> ReadCell(r.cells[c]).v]
RowObjs(in, q) == [i \in 1..Len(q) |-> RowObj(in, q[i])]

\* a select on the table that the store ran without a failure of its own
SelectRan ==
    /\ last.set /\ last.in.op = "select" /\ last.in.table = StoreTable
    /\ last.invoked /\ ~last.fault

\* C7 as stated: for every limit L and offset O, a select returns the rows
\* at positions O+1 .. min(O+L, N) of the table's order, and with no column
\* list or an empty one every stored column of each row.
C7_Original ==
    (SelectRan /\ IsSome(last.in.limit) /\ IsSome(last.in.offset)) =>
        LET L == Unwrap(last.in.limit)
            O == Unwrap(last.in.offset)
        IN  /\ last.res.ok
            /\ last.res.out = RowObjs(last.in, Slice(Ordered(last.in, last.pre), O + 1, O + L))

\* C7 (amended): a select with limit L >= 0 and offset O >= 0 over N rows
\* returns exactly the rows at positions O+1 .. min(O+L, N) of the table's
\* natural or order-by order; a negative limit puts no upper bound and a
\* negative offset counts as 0; with no column list or an empty one each
\* returned row carries every stored column, and the table is left as it was.
C7_LimitOffsetWindow ==
    /\ (SelectRan /\ IsSome(last.in.limit) /\ IsSome(last.in.offset)) =>
          LET L == Unwrap(last.in.limit)
              O == Max(Unwrap(last.in.offset), 0)
              q == Ordered(last.in, last.pre)
          IN  /\ last.res.ok
              /\ rows = last.pre
              /\ L >= 0 => last.res.out = RowObjs(last.in, Slice(q, O + 1, O + L))
              /\ L < 0 => last.res.out = RowObjs(last.in, Slice(q, O + 1, Len(q)))
    /\ (SelectRan /\ last.res.ok
           /\ (~IsSome(last.in.columns) \/ last.in.columns = Some(<<>>))) =>
          \A i \in 1..Len(last.res.out) :
              DOMAIN last.res.out[i] = {StoreColumns[j] : j \in 1..Len(StoreColumns)}

C7_Witness ==
    /\ SelectRan /\ last.res.ok
    /\ last.in.limit = Some(2) /\ last.in.offset = Some(1)
    /\ ~IsSome(last.in.columns) /\ ~IsSome(last.in.order_by)
    /\ Len(last.pre) = TableRows
    /\ Len(last.res.out) = 2
    /\ last.res.out = RowObjs(last.in, <<last.pre[2], last.pre[3]>>)

\* the connections held by the calls in flight: one by each call at "exec"
Held(b) ==
    LET S == {c \in BagToSet(b) : c.pc = "exec"}
        f[T \in SUBSET S] ==
            IF T = {} THEN 0
            ELSE LET c == CHOOSE x \in T : TRUE IN CopiesIn(c, b) + f[T \ {c}]
    IN  f[S]

\* the pool is never over its size, and every connection in use is held by a
\* call in flight; a failed call returned an error and left the rows alone
PoolSound ==
    /\ inUse >= 0
    /\ inUse <= max_connections
    /\ inUse = Held(calls)
    /\ (last.set /\ ~last.res.ok) =>
          /\ last.res.code \in {"invalid_params", "internal_error"}
          /\ last.res.msg # ""
          /\ last.res.out = <<>>
          /\ rows = last.pre
          /\ last.res.code = "invalid_params" <=> ~last.invoked

\* a step in which a call fails takes that call out of the calls in flight,
\* gives back the connection it held, if it held one, and changes nothing else
FailureStep ==
    (last' # last /\ last'.set /\ ~last'.res.ok) =>
        /\ rows' = rows
        /\ \/ ~last'.invoked /\ calls' = calls /\ inUse' = inUse
           \/ \E c \in BagToSet(calls) :
                 /\ c.in = last'.in
                 /\ calls' = calls (-) One(c)
                 /\ inUse' = inUse - (IF c.pc = "exec" THEN 1 ELSE 0)

\* C8: in every interleaving of calls, a failure (invalid identifier, empty
\* column set, failure of the store or pool) ends only the call it occurred
\* in: that call returns an error, the connection it had acquired is back in
\* the pool, the connections in use never exceed the pool size, and the rows
\* and the other calls in flight are as if the failed call had not been made.
C8_FailureEndsOnlyItsCall == []PoolSound /\ [][FailureStep]_vars

C8_Witness ==
    /\ last.set /\ last.invoked /\ ~last.fault /\ ~last.res.ok
    /\ last.res.code = "internal_error"
    /\ inUse = max_connections - 1
    /\ BagCardinality(calls) = MaxCalls - 1
    /\ \E c \in BagToSet(calls) : c.pc = "acquire"

\* the value of a base64 character; = pads
B64Index(c) == (CHOOSE i \in 1..Len(B64Chars) : CharAt(B64Chars, i) = c) - 1
IsB64(s) ==
    /\ Len(s) % 4 = 0
    /\ \A i \in 1..Len(s) :
          \/ \E j \in 1..Len(B64Chars) : CharAt(B64Chars, j) = CharAt(s, i)
          \/ CharAt(s, i) = "=" /\ i >= Len(s) - 1 /\ (i = Len(s) - 1 => CharAt(s, Len(s)) = "=")

\* the bytes a padded base64 text stands for
RECURSIVE B64Decode(_)
B64Decode(s) ==
    IF Len(s) < 4 THEN <<>>
    ELSE LET i1 == B64Index(CharAt(s, 1))
             i2 == B64Index(CharAt(s, 2))
         IN  IF CharAt(s, 3) = "=" THEN <<i1 * 4 + i2 \div 16>>
             ELSE LET i3 == B64Index(CharAt(s, 3))
                  IN  IF CharAt(s, 4) = "="
                      THEN <<i1 * 4 + i2 \div 16, (i2 % 16) * 16 + i3 \div 4>>
                      ELSE <<i1 * 4 + i2 \div 16, (i2 % 16) * 16 + i3 \div 4,
                             (i3 % 4) * 64 + B64Index(CharAt(s, 4))>>
                           \o B64Decode(From(s, 5))

\* s is the padded base64 text of bytes
IsBase64Of(s, bytes) ==
    /\ IsB64(s)
    /\ Len(s) = 4 * ((Len(bytes) + 2) \div 3)
    /\ B64Decode(s) = bytes

\* the value the select returned for the one cell read
ReadValue == marshal.res.out[1]["a"]

\* C9 as stated: for every byte sequence b, writing b through the write
\* path (as the array of its bytes, or as its base64 text) and reading the
\* stored cell back yields the text base64(b); <<1, 2, 255>> yields "AQL/".
C9_Original ==
    (marshal.mode = "write" /\ marshal.stage = "read") =>
        \A b \in ByteSeqs :
            (marshal.wire = JArr(b) \/ marshal.wire = JStr(B64Encode(b))) =>
                /\ marshal.res.ok
                /\ ReadValue.t = "str"
                /\ IsBase64Of(ReadValue.s, b)

\* C9 (amended): a stored BLOB cell holding the bytes b is read back as the
\* padded base64 text of b, which decodes to b (<<1, 2, 255>> reads as
\* "AQL/"). The write path has no Binary case and never stores a BLOB: an
\* array of bytes is stored as its JSON text and read back as that text
\* ("[1,2,255]"), and a string is stored and read back as the same text.
C9_BlobReadsAsBase64 ==
    marshal.stage = "read" =>
        /\ marshal.res.ok
        /\ Len(marshal.res.out) = 1
        /\ (marshal.mode = "read" /\ marshal.cell.k = "blob") =>
              /\ ReadValue.t = "str"
              /\ IsBase64Of(ReadValue.s, marshal.cell.bytes)
              /\ marshal.cell.bytes = <<1, 2, 255>> => ReadValue = JStr("AQL/")
        /\ marshal.mode = "write" =>
              /\ marshal.cell.k # "blob"
              /\ marshal.wire.t \in {"arr", "obj"} =>
                    /\ marshal.cell = CText(to_string(marshal.wire))
                    /\ ReadValue = JStr(to_string(marshal.wire))
              /\ marshal.wire = JArr(<<1, 2, 255>>) => ReadValue = JStr("[1,2,255]")
              /\ marshal.wire.t = "str" =>
                    /\ marshal.cell = CText(marshal.wire.s)
                    /\ ReadValue = marshal.wire

C9_Witness ==
    /\ marshal.mode = "read" /\ marshal.stage = "read"
    /\ marshal.cell = CBlob(<<1, 2, 255>>)
    /\ marshal.res.ok
    /\ ReadValue = JStr("AQL/")
    /\ B64Decode("AQL/") = <<1, 2, 255>>

C9_WitnessWritten ==
    /\ marshal.mode = "write" /\ marshal.stage = "read"
    /\ marshal.wire = JArr(<<1, 2, 255>>)
    /\ ReadValue = JStr("[1,2,255]")

\* C10: the read of a cell checks nullness first and yields Null for a null
\* cell with no typed read attempted; for a non-null cell it tries i64, f64,
\* String, Vec<u8> in that order and yields the first that succeeds (bytes as
\* base64 text; a float that is not finite as Null); a cell that none of the
\* four reads yields Null, and the select succeeds in every case.
C10_NullFirstThenProbeOrder ==
    marshal.stage = "read" =>
        LET c == marshal.cell
            p == marshal.probes
        IN  /\ marshal.res.ok
            /\ Len(marshal.res.out) = 1
            /\ DOMAIN marshal.res.out[1] = {"a"}
            /\ c.k = "null" => ReadValue = JNull /\ p = <<>>
            /\ c.k = "int" => ReadValue = JInt(c.n) /\ p = <<"i64">>
            /\ c.k = "float" =>
                  /\ p = <<"i64", "f64">>
                  /\ ReadValue = (IF c.s = "inf" THEN JNull ELSE JFloatN(c.n))
            /\ (c.k = "text" /\ c.bytes = <<>>) =>
                  ReadValue = JStr(c.s) /\ p = <<"i64", "f64", "String">>
            /\ (c.k = "blob" \/ (c.k = "text" /\ c.bytes # <<>>)) =>
                  /\ p = <<"i64", "f64", "String", "Vec<u8>">>
                  /\ ReadValue.t = "str"
                  /\ IsBase64Of(ReadValue.s, c.bytes)
            /\ c.k = "other" =>
                  ReadValue = JNull /\ p = <<"i64", "f64", "String", "Vec<u8>">>

C10_Witness ==
    /\ marshal.mode = "read" /\ marshal.stage = "read"
    /\ marshal.cell = CNull
    /\ marshal.probes = <<>>
    /\ marshal.res.ok
    /\ ReadValue = JNull

C10_WitnessNoProbeMatches ==
    /\ marshal.mode = "read" /\ marshal.stage = "read"
    /\ marshal.cell = COther
    /\ marshal.probes = ProbeOrder
    /\ marshal.res.ok
    /\ ReadValue = JNull

(***************************************************************************)
(* SpecBind: calls whose values and parameters range over the JSON values  *)
(***************************************************************************)
\* the values bound under SpecBind
BindValues ==
    {JNull, JBool(TRUE), JBool(FALSE), JPos(Small(0)), JPos(I64_MAX), JPos(Big(1, 0)),
     JPos(U64_MAX), JNeg(Small(-1)), JNeg(I64_MIN), JFloat(3), JStr("x"),
     JArr(<<1, 2, 255>>), JObj(<<"k">>, <<1>>)}

\* the calls made under SpecBind
BindInputs ==
    {InsertInput("t", <<Entry("a", JPos(U64_MAX))>>)}
    \cup {SelectInput("t", None, Some("a = ?"), Some(ps), None, None, None) :
             ps \in SeqsUpTo(BindValues, MaxCols)}
    \cup {DeleteInput("t", Some("1 = 0"), Some(<<w>>)) : w \in BindValues}

NextBind ==
    \/ \E in \in BindInputs : Idle /\ Receive(in)
    \/ Acquire
    \/ Execute(MaxRows)
    \/ ExecuteFail
    \/ Respond
SpecBind == Init /\ [][NextBind]_vars

\* the values a call gives to bind, in the order it gives them
Given(in) ==
    (IF in.op \in {"insert", "update"} THEN Vals(in.values) ELSE <<>>)
    \o (IF IsSome(in.params) THEN Unwrap(in.params) ELSE <<>>)

\* the parameter the write path is to bind for a value
Expected(v) ==
    IF v.t = "null" THEN PNull
    ELSE IF v.t = "bool" THEN PBool(v.b)
    ELSE IF v.t = "num" /\ v.rep = "Float" THEN PFloat(v.n)
    ELSE IF v.t = "num" /\ BigLeq(v.n, I64_MAX) THEN PInt(v.n)
    ELSE IF v.t = "num" THEN PInt(Big(1, -1))
    ELSE IF v.t = "str" THEN PText(v.s)
    ELSE IF v = JArr(<<1, 2, 255>>) THEN PText("[1,2,255]")
    ELSE IF v = JObj(<<"k">>, <<1>>) THEN PText("{\"k\":1}")
    ELSE PText(to_string(v))

\* C11: the write path never rejects a value and binds exactly one parameter
\* per value given: Null binds NULL, a boolean a boolean, an integer within the
\* signed 64-bit range that integer, an unsigned integer above i64::MAX exactly
\* 2^63-1, a float a float, a string text, an array or object its JSON text.
C11_BindsOnePerValue ==
    /\ \A e \in Emitted :
          /\ Len(e.stmt.binds) = Len(Given(e.in))
          /\ \A i \in 1..Len(e.stmt.binds) : e.stmt.binds[i] = Expected(Given(e.in)[i])
    /\ (last.set /\ NamesOk(last.in)) =>
          /\ last.invoked
          /\ last.res.code # "invalid_params"

C11_Witness ==
    /\ last.set /\ last.invoked /\ last.res.ok
    /\ last.in.op = "select"
    /\ last.in.params = Some(<<JPos(U64_MAX), JArr(<<1, 2, 255>>)>>)
    /\ last.stmt.binds = <<PInt(I64_MAX), PText("[1,2,255]")>>

(***************************************************************************)
(* SpecSelect: selects over every combination of their optional inputs     *)
(***************************************************************************)
\* the calls made under SpecSelect
SelectInputs ==
    {InsertInput("t", <<Entry("a", JPos(Small(1)))>>)}
    \cup {SelectInput(t, c, f.where, f.params, ob, l, o) :
             t \in {"t", "1abc"},
             c \in {None, Some(<<>>), Some(<<"a">>), Some(<<"b", "a">>), Some(<<"a", "1abc">>)},
             f \in Filters \cup {Filter(Some("a = ?"), Some(<<JStr("x"), JPos(Small(1))>>)),
                                 Filter(None, Some(<<JPos(Small(1))>>))},
             ob \in {None, Some("rowid DESC")},
             l \in {None, Some(-1), Some(2)},
             o \in {None, Some(1), Some(12)}}

NextSelect ==
    \/ \E in \in SelectInputs : Idle /\ Receive(in)
    \/ Acquire
    \/ Execute(MaxRows)
    \/ ExecuteFail
    \/ Respond
SpecSelect == Init /\ [][NextSelect]_vars

\* s from the text that follows the first kw in it, "" when kw is not in s
After(s, kw) == IF Find(s, kw) = 0 THEN "" ELSE From(s, Find(s, kw) + Len(kw))

\* the text of a select's clause kw: what follows kw up to the clause that
\* comes next among later
ClauseText(sql, kw, later) ==
    LET rest == After(sql, kw)
        ends == {Find(rest, later[i]) : i \in 1..Len(later)} \ {0}
    IN  IF ends = {} THEN rest
        ELSE SubSeq(rest, 1, (CHOOSE e \in ends : \A f \in ends : e <= f) - 1)

\* C12: the statement of an accepted select is SELECT <cols> FROM <table>,
\* <cols> being the column list joined by ", " when a non-empty list is
\* given and * otherwise, followed in this order by WHERE <filter>, ORDER BY
\* <orderBy>, LIMIT <n>, OFFSET <n>, each there iff its input is; the filter
\* and order-by text are verbatim, limit and offset are integer literals and
\* are not bound, and the binds are the filter parameters in the order given.
C12_SelectStatementShape ==
    \A e \in Emitted :
        e.in.op = "select" =>
            LET in == e.in
                sql == e.stmt.sql
                cols == IF IsSome(in.columns) /\ Unwrap(in.columns) # <<>>
                        THEN Join(Unwrap(in.columns), ", ") ELSE "*"
                ps == IF IsSome(in.params) THEN Unwrap(in.params) ELSE <<>>
            IN  /\ NamesOk(in)
                /\ StartsWith(sql, "SELECT " \o cols \o " FROM " \o in.table)
                /\ sql = "SELECT " \o cols \o " FROM " \o in.table
                         \o (IF IsSome(in.where) THEN " WHERE " \o Unwrap(in.where) ELSE "")
                         \o (IF IsSome(in.order_by) THEN " ORDER BY " \o Unwrap(in.order_by) ELSE "")
                         \o (IF IsSome(in.limit) THEN " LIMIT " \o IntStr(Unwrap(in.limit)) ELSE "")
                         \o (IF IsSome(in.offset) THEN " OFFSET " \o IntStr(Unwrap(in.offset)) ELSE "")
                /\ IsSome(in.where) <=> Find(sql, " WHERE ") > 0
                /\ IsSome(in.order_by) <=> Find(sql, " ORDER BY ") > 0
                /\ IsSome(in.limit) <=> Find(sql, " LIMIT ") > 0
                /\ IsSome(in.offset) <=> Find(sql, " OFFSET ") > 0
                /\ IsSome(in.where) =>
                      ClauseText(sql, " WHERE ", <<" ORDER BY ", " LIMIT ", " OFFSET ">>)
                          = Unwrap(in.where)
                /\ IsSome(in.order_by) =>
                      ClauseText(sql, " ORDER BY ", <<" LIMIT ", " OFFSET ">>)
                          = Unwrap(in.order_by)
                /\ IsSome(in.limit) =>
                      LET lit == ClauseText(sql, " LIMIT ", <<" OFFSET ">>)
                      IN  IsIntLit(lit) /\ IntVal(lit) = Unwrap(in.limit)
                /\ IsSome(in.offset) =>
                      LET lit == ClauseText(sql, " OFFSET ", <<>>)
                      IN  IsIntLit(lit) /\ IntVal(lit) = Unwrap(in.offset)
                /\ Find(sql, "?") > 0 => IsSome(in.where)
                /\ Len(e.stmt.binds) = Len(ps)
                /\ \A i \in 1..Len(ps) : e.stmt.binds[i] = bind_value(ps[i])

C12_Witness ==
    /\ last.set /\ last.invoked /\ last.res.ok
    /\ last.in.op = "select"
    /\ last.in.columns = Some(<<"b", "a">>)
    /\ last.in.params = Some(<<JStr("x"), JPos(Small(1))>>)
    /\ last.stmt.sql = "SELECT b, a FROM t WHERE a = ? ORDER BY rowid DESC LIMIT 2 OFFSET 1"
    /\ last.stmt.binds = <<PText("x"), PInt(Small(1))>>

C12_WitnessBare ==
    /\ last.set /\ last.invoked
    /\ last.in.op = "select"
    /\ last.in.columns = Some(<<>>)
    /\ last.stmt.sql = "SELECT * FROM t OFFSET 12"
    /\ last.stmt.binds = <<PInt(Small(1))>>

====
